---- MODULE Spec2Model ----
(***************************************************************************)
(* Model of toot/wcstring.py: display-width aware wrapping (wc_wrap and    *)
(* its fallback _wc_hard_wrap), truncation (trunc), padding (pad) and      *)
(* fitting (fit_text).                                                     *)
(*                                                                         *)
(* A string is a sequence of characters.  The characters are one           *)
(* representative of every class the code distinguishes: a narrow          *)
(* printable character, a wide (two column) character, a zero-width        *)
(* combining mark, the ASCII space, the tab (a control character: wcwidth  *)
(* gives -1) and the ellipsis that trunc appends.                          *)
(***************************************************************************)
EXTENDS Integers, Sequences, FiniteSets

\* ---------------------------------------------------------------- bounds
MaxLen == 5        \* longest input text, in characters
MaxWidth == 3      \* largest target length

\* ------------------------------------------------------------ characters
NARROW == "a"
WIDE == "W"
ZEROW == "z"
SP == " "
TAB == "TAB"
ELLIPSIS == "ELLIPSIS"

Alphabet == {NARROW, WIDE, ZEROW, SP, TAB}

Texts == UNION {[1..n -> Alphabet] : n \in 0..MaxLen}

None == "None"

\* ------------------------------------------------- the wcwidth library
\* wcwidth(char): columns of one character, -1 for a control character.
wcwidth(char) ==
    CASE char = WIDE -> 2
      [] char = ZEROW -> 0
      [] char = TAB -> 0 - 1
      [] OTHER -> 1

RECURSIVE SumWidth(_)
SumWidth(s) == IF s = <<>> THEN 0 ELSE wcwidth(Head(s)) + SumWidth(Tail(s))

\* wcswidth(s): sum of the widths, -1 as soon as one character has none.
wcswidth(s) ==
    IF \E i \in 1..Len(s) : wcwidth(s[i]) < 0 THEN 0 - 1 ELSE SumWidth(s)

\* ------------------------------------------------- Python str primitives
\* str.isspace for one character
isspace(char) == char \in {SP, TAB}

\* rstrip that removes one trailing whitespace character only
rstrip_once(s) ==
    IF s = <<>> \/ ~isspace(s[Len(s)]) THEN s ELSE SubSeq(s, 1, Len(s) - 1)

RECURSIVE rstrip(_)
rstrip(s) ==
    IF s = <<>> \/ ~isspace(s[Len(s)]) THEN s
    ELSE rstrip(SubSeq(s, 1, Len(s) - 1))

RECURSIVE lstrip(_)
lstrip(s) ==
    IF s = <<>> \/ ~isspace(Head(s)) THEN s ELSE lstrip(Tail(s))

strip(s) == rstrip(lstrip(s))

\* "".join(parts)
RECURSIVE join(_)
join(parts) == IF parts = <<>> THEN <<>> ELSE Head(parts) \o join(Tail(parts))

\* text[:-n] for n >= 1
DropLast(s, n) == IF n >= Len(s) THEN <<>> ELSE SubSeq(s, 1, Len(s) - n)

\* ' ' * n
RECURSIVE Spaces(_)
Spaces(n) == IF n <= 0 THEN <<>> ELSE <<SP>> \o Spaces(n - 1)

\* ------------------------------------------------------------ tokenizer
\* The character class [ \t] of the regular expression.
IsBlank(char) == char \in {SP, TAB}

\* .+? : at least one character, then as few as possible until a blank or
\* the end of the text follows.
RECURSIVE LazyWordEnd(_, _)
LazyWordEnd(s, j) ==
    IF j = Len(s) \/ IsBlank(s[j + 1]) THEN j ELSE LazyWordEnd(s, j + 1)

\* [ \t]+ : the maximal run of blanks that follows.
RECURSIVE BlankRunEnd(_, _)
BlankRunEnd(s, j) ==
    IF j < Len(s) /\ IsBlank(s[j + 1]) THEN BlankRunEnd(s, j + 1) ELSE j

\* re.split(r"(.+?(?:[ \t]+|$))", text) without the empty strings between
\* the matches, which the loop skips.
RECURSIVE re_split(_)
re_split(s) ==
    IF s = <<>> THEN <<>>
    ELSE LET e == BlankRunEnd(s, LazyWordEnd(s, 1))
         IN  <<SubSeq(s, 1, e)>> \o re_split(SubSeq(s, e + 1, Len(s)))

\* -------------------------------------------------------- _wc_hard_wrap
\* the loop with the width of the incoming character left out of the test
RECURSIVE hard_wrap_loop_late(_, _, _, _, _)
hard_wrap_loop_late(line, len, i, chars, chars_len) ==
    IF i > Len(line)
    THEN IF chars # <<>> THEN <<chars>> ELSE <<>>
    ELSE LET char == line[i]
             char_len == wcwidth(char)
         IN  IF chars_len > len
             THEN <<chars>> \o hard_wrap_loop_late(line, len, i + 1, <<char>>, char_len)
             ELSE hard_wrap_loop_late(line, len, i + 1, Append(chars, char),
                                      chars_len + char_len)

RECURSIVE hard_wrap_loop(_, _, _, _, _)
hard_wrap_loop(line, len, i, chars, chars_len) ==
    IF i > Len(line)
    THEN IF chars # <<>> THEN <<chars>> ELSE <<>>
    ELSE LET char == line[i]
             char_len == wcwidth(char)
         IN  IF chars_len + char_len > len
             THEN <<chars>> \o hard_wrap_loop(line, len, i + 1, <<char>>, char_len)
             ELSE hard_wrap_loop(line, len, i + 1, Append(chars, char),
                                 chars_len + char_len)

\* the generator without its final "if chars: yield"
wc_hard_wrap_no_tail(line, len) ==
    LET all == hard_wrap_loop(line, len, 1, <<>>, 0)
    IN  IF all = <<>> THEN <<>> ELSE SubSeq(all, 1, Len(all) - 1)

wc_hard_wrap(line, len) == hard_wrap_loop(line, len, 1, <<>>, 0)

\* ---------------------------------------------------------------- trunc
\* The reversed scan of trunc: how many trailing characters to cut.
RECURSIVE trunc_scan(_, _, _, _, _)
trunc_scan(t, text_len, len, chars_to_truncate, trunc_length) ==
    IF chars_to_truncate = Len(t) THEN chars_to_truncate
    ELSE LET n == chars_to_truncate + 1
             cut == trunc_length + wcwidth(t[Len(t) - chars_to_truncate])
         IN  IF text_len - cut <= len THEN n
             ELSE trunc_scan(t, text_len, len, n, cut)

\* trunc after the argument check
trunc_body(t, len) ==
    LET stripped == strip(t)
        text_len == wcswidth(stripped)
    IN  IF text_len <= len THEN stripped
        ELSE LET n == trunc_scan(stripped, text_len, len, 0, 0) + 1
             IN  strip(DropLast(stripped, n)) \o <<ELLIPSIS>>

\* ------------------------------------------------------------------ pad
\* pad counting characters instead of columns
pad_by_chars(t, len) ==
    IF Len(t) < len THEN t \o Spaces(len - Len(t)) ELSE t

pad(t, len) ==
    LET text_len == wcswidth(t)
    IN  IF text_len < len THEN t \o Spaces(len - text_len) ELSE t

\* --------------------------------------------------------------- results
Return(v) == [exc |-> None, value |-> v]
Raise(e) == [exc |-> e, value |-> <<>>]

VARIABLES op, text, length, pc, calls, prev, result,
          fit_text_length, trunc_text_length,
          words, line_words, line_len, flushes

vars == <<op, text, length, pc, calls, prev, result,
          fit_text_length, trunc_text_length,
          words, line_words, line_len, flushes>>

wrapVars == <<words, line_words, line_len, flushes>>
fitVars == <<calls, prev, result, fit_text_length, trunc_text_length>>

\* The lines yielded so far, in order.
RECURSIVE ChunksOf(_)
ChunksOf(fs) == IF fs = <<>> THEN <<>> ELSE Head(fs).chunks \o ChunksOf(Tail(fs))

lines == ChunksOf(flushes)

InitCall(ops, lens) ==
    /\ op \in ops
    /\ text \in Texts
    /\ length \in lens
    /\ pc = op
    /\ calls = 1
    /\ prev = None
    /\ result = None
    /\ fit_text_length = None
    /\ trunc_text_length = None
    /\ words = <<>>
    /\ line_words = <<>>
    /\ line_len = 0
    /\ flushes = <<>>

\* --------------------------------------------------------------- wc_wrap
\* lines 42-45
WrapStart ==
    /\ pc = "wc_wrap"
    /\ words' = re_split(text)
    /\ line_words' = <<>>
    /\ line_len' = 0
    /\ pc' = "wrap_loop"
    /\ UNCHANGED <<op, text, length, flushes>>
    /\ UNCHANGED fitVars

\* what a flush of `line` yields
Flushed(line, fits) ==
    IF fits THEN [hard |-> FALSE, chunks |-> <<line>>]
    ELSE [hard |-> TRUE, chunks |-> wc_hard_wrap(line, length)]

\* the line buffer after the word is appended: emptied first on a break
\* (the variant appends only when there was no break)
line_words_lost(buffer, word, brk) ==
    IF brk THEN <<>> ELSE Append(buffer, word)

line_words_after(buffer, word, brk) ==
    Append(IF brk THEN <<>> ELSE buffer, word)

\* one iteration of the loop over the words, lines 46-68
WrapWord ==
    /\ pc = "wrap_loop"
    /\ words # <<>>
    /\ LET word == Head(words)
           word_len == wcswidth(word)
           striped_line == rstrip(join(line_words))
           adj_len == IF wcswidth(striped_line) > length
                      THEN line_len % length ELSE line_len
           brk == /\ line_words # <<>>
                  /\ adj_len + word_len > length
                  /\ adj_len + wcswidth(rstrip(word)) > length
           kept == IF brk THEN <<>> ELSE line_words
       IN  /\ flushes' = IF brk
                         THEN Append(flushes,
                                Flushed(striped_line, wcswidth(striped_line) <= length))
                         ELSE flushes
           /\ line_len' = wcswidth(join(kept)) + word_len
           /\ line_words' = line_words_after(line_words, word, brk)
    /\ words' = Tail(words)
    /\ UNCHANGED <<op, text, length, pc>>
    /\ UNCHANGED fitVars

\* after the loop, lines 70-75
WrapFinish ==
    /\ pc = "wrap_loop"
    /\ words = <<>>
    /\ flushes' = IF line_words # <<>>
                  THEN Append(flushes,
                         Flushed(rstrip(join(line_words)), line_len <= length))
                  ELSE flushes
    /\ pc' = "done"
    /\ UNCHANGED <<op, text, length, words, line_words, line_len>>
    /\ UNCHANGED fitVars

InitWrap == InitCall({"wc_wrap"}, 1..MaxWidth)
NextWrap == WrapStart \/ WrapWord \/ WrapFinish
SpecWrap == InitWrap /\ [][NextWrap]_vars

\* --------------------------------------------------- _wc_hard_wrap alone
HardWrapCall ==
    /\ pc = "wc_hard_wrap"
    /\ flushes' = <<[hard |-> TRUE, chunks |-> wc_hard_wrap(text, length)]>>
    /\ pc' = "done"
    /\ UNCHANGED <<op, text, length, words, line_words, line_len>>
    /\ UNCHANGED fitVars

InitHardWrap == InitCall({"wc_hard_wrap"}, 1..MaxWidth)
NextHardWrap == HardWrapCall
SpecHardWrap == InitHardWrap /\ [][NextHardWrap]_vars

\* ------------------------------------------------ trunc, pad, fit_text
\* the argument check of trunc (the variant accepts 0)
bad_length_below_zero(len) == len < 0

bad_length(len) == len < 1

\* lines 84-85
TruncCheck ==
    /\ pc = "trunc"
    /\ IF bad_length(length)
       THEN /\ result' = Raise("ValueError")
            /\ pc' = "raised"
       ELSE /\ pc' = "trunc_body"
            /\ UNCHANGED result
    /\ UNCHANGED <<op, text, length, calls, prev, fit_text_length, trunc_text_length>>
    /\ UNCHANGED wrapVars

\* lines 88-107
TruncBody ==
    /\ pc = "trunc_body"
    /\ trunc_text_length' = wcswidth(strip(text))
    /\ result' = Return(trunc_body(text, length))
    /\ pc' = "done"
    /\ UNCHANGED <<op, text, length, calls, prev, fit_text_length>>
    /\ UNCHANGED wrapVars

\* lines 110-117
Pad ==
    /\ pc = "pad"
    /\ result' = Return(pad(text, length))
    /\ pc' = "done"
    /\ UNCHANGED <<op, text, length, calls, prev, fit_text_length, trunc_text_length>>
    /\ UNCHANGED wrapVars

\* lines 120-130
FitText ==
    /\ pc = "fit_text"
    /\ fit_text_length' = wcswidth(text)
    /\ IF wcswidth(text) > length
       THEN pc' = "trunc" /\ UNCHANGED result
       ELSE IF wcswidth(text) < length
            THEN pc' = "pad" /\ UNCHANGED result
            ELSE pc' = "done" /\ result' = Return(text)
    /\ UNCHANGED <<op, text, length, calls, prev, trunc_text_length>>
    /\ UNCHANGED wrapVars

\* A caller passes the result of fit_text to fit_text again.
Refit ==
    /\ op = "fit_text"
    /\ pc = "done"
    /\ calls = 1
    /\ prev' = result
    /\ text' = result.value
    /\ calls' = 2
    /\ pc' = "fit_text"
    /\ result' = None
    /\ fit_text_length' = None
    /\ trunc_text_length' = None
    /\ UNCHANGED <<op, length>>
    /\ UNCHANGED wrapVars

InitFitter == InitCall({"trunc", "pad", "fit_text"}, (0 - 1)..MaxWidth)
NextFitter == TruncCheck \/ TruncBody \/ Pad \/ FitText \/ Refit
SpecFitter == InitFitter /\ [][NextFitter]_vars

\* ------------------------------------------------ vocabulary of the claims
NoControl(s) == \A i \in 1..Len(s) : wcwidth(s[i]) >= 0

NotSpace(char) == ~isspace(char)
NonWs(s) == SelectSeq(s, NotSpace)

IsPrefix(p, s) == Len(p) <= Len(s) /\ SubSeq(s, 1, Len(p)) = p

EndsWithSpace(s) == s # <<>> /\ isspace(s[Len(s)])

Max(a, b) == IF a >= b THEN a ELSE b

\* t is the lines in order, each followed by a (possibly empty) run of
\* whitespace that is in t and in no line.
RECURSIVE Reconstructs(_, _)
Reconstructs(t, ls) ==
    IF ls = <<>> THEN \A i \in 1..Len(t) : isspace(t[i])
    ELSE LET l == Head(ls)
         IN  /\ IsPrefix(l, t)
             /\ \E k \in 0..(Len(t) - Len(l)) :
                   /\ \A i \in 1..k : isspace(t[Len(l) + i])
                   /\ Reconstructs(SubSeq(t, Len(l) + k + 1, Len(t)), Tail(ls))

\* for every non-whitespace character of the lines, in order, the index of
\* the line it is in
RECURSIVE NonWsLineIdx(_, _)
NonWsLineIdx(ls, k) ==
    IF k > Len(ls) THEN <<>>
    ELSE [i \in 1..Len(NonWs(ls[k])) |-> k] \o NonWsLineIdx(ls, k + 1)

\* ------------------------------------------------------------------- C1
\* C1: for a text of characters of width 0, 1 or 2 and a length >= 1, every
\* line yielded by wc_wrap is at most length columns wide, unless the text
\* contains a character that is itself wider than length.
C1_WidthBound ==
    (/\ NoControl(text)
     /\ length >= 1
     /\ \A i \in 1..Len(text) : wcwidth(text[i]) <= length)
    => \A k \in 1..Len(lines) : wcswidth(lines[k]) <= length

C1_Witness ==
    /\ pc = "done"
    /\ NoControl(text)
    /\ \A i \in 1..Len(text) : wcwidth(text[i]) <= length
    /\ \E i \in 1..Len(text) : text[i] = WIDE
    /\ \E f \in 1..Len(flushes) : flushes[f].hard /\ Len(flushes[f].chunks) >= 2

\* ------------------------------------------------------------------- C2
\* C2: for a text without control characters and a length >= 1, the result
\* of fit_text is exactly length columns wide.
C2_FitExactWidth ==
    (/\ op = "fit_text"
     /\ pc = "done"
     /\ length >= 1
     /\ NoControl(text))
    => wcswidth(result.value) = length

\* ------------------------------------------------------------------- C3
\* C3: for a text without control characters and a length >= 1, trunc
\* returns the stripped text when it fits, and otherwise a strict prefix of
\* the stripped text followed by one ellipsis, at most length columns wide.
C3_TruncShape ==
    (/\ op = "trunc"
     /\ pc = "done"
     /\ length >= 1
     /\ NoControl(text))
    => LET s == strip(text)
           v == result.value
       IN  IF wcswidth(s) <= length
           THEN v = s
           ELSE /\ v # <<>>
                /\ v[Len(v)] = ELLIPSIS
                /\ Len(v) - 1 < Len(s)
                /\ IsPrefix(SubSeq(v, 1, Len(v) - 1), s)
                /\ wcswidth(v) <= length

\* ------------------------------------------------------------------- C4
\* C4 as stated: with a length < 1, trunc raises ValueError before any
\* other work, and fit_text raises ValueError too and never returns.
C4_FitAlwaysRaises ==
    (length < 1 /\ op \in {"trunc", "fit_text"})
    => /\ pc \in {"trunc", "fit_text", "raised"}
       /\ pc = "raised" => /\ result = Raise("ValueError")
                           /\ trunc_text_length = None

\* C4 amended: with a length < 1, trunc raises ValueError before any other
\* work; fit_text raises ValueError exactly when the text is wider than
\* length, and otherwise returns the text followed by spaces only.
C4_RaisesWhenWider ==
    length < 1
    => /\ op = "trunc"
          => /\ pc \in {"trunc", "raised"}
             /\ pc = "raised" => /\ result = Raise("ValueError")
                                 /\ trunc_text_length = None
       /\ op = "fit_text"
          => /\ pc # "trunc_body"
             /\ pc = "raised" => /\ result = Raise("ValueError")
                                 /\ trunc_text_length = None
                                 /\ wcswidth(text) > length
             /\ pc = "done" => /\ wcswidth(text) <= length
                               /\ result.exc = None
                               /\ IsPrefix(text, result.value)
                               /\ \A i \in (Len(text) + 1)..Len(result.value) :
                                     result.value[i] = SP

C4_Witness ==
    /\ op = "fit_text"
    /\ length < 1
    /\ pc = "raised"
    /\ text # <<>>

\* ------------------------------------------------------------------- C5
\* C5: fit_text is idempotent: for a text without control characters and a
\* length >= 1, fitting the result again returns the same string.  (With a
\* length >= 1 the first result has a control character exactly when the
\* first text has one; text is the argument of the second call.)
C5_FitIdempotent ==
    (/\ op = "fit_text"
     /\ pc = "done"
     /\ calls = 2
     /\ length >= 1
     /\ NoControl(text))
    => result = prev

\* ------------------------------------------------------------------- C6
\* C6: for a text without control characters and any length, pad returns
\* the text followed by spaces only, max(width of text, length) columns
\* wide; it never shortens the text.
C6_Pad ==
    (op = "pad" /\ pc = "done" /\ NoControl(text))
    => LET v == result.value
       IN  /\ result.exc = None
           /\ IsPrefix(text, v)
           /\ \A i \in (Len(text) + 1)..Len(v) : v[i] = SP
           /\ wcswidth(v) = Max(wcswidth(text), length)

C6_Witness ==
    /\ op = "pad"
    /\ pc = "done"
    /\ NoControl(text)
    /\ \E i \in 1..Len(text) : text[i] = WIDE
    /\ \E i \in 1..Len(text) : text[i] = ZEROW
    /\ wcswidth(text) < length
    /\ Len(result.value) > Len(text)

\* ------------------------------------------------------------------- C7
\* C7: for a text without control characters and a length >= 1, the
\* non-whitespace characters of the yielded lines, in order, are those of
\* the text; the text is the lines with runs of whitespace after them.
C7_NothingLost ==
    (NoControl(text) /\ length >= 1)
    => /\ IsPrefix(NonWs(join(lines)), NonWs(text))
       /\ pc = "done" => /\ NonWs(join(lines)) = NonWs(text)
                         /\ Reconstructs(text, lines)

C7_Witness ==
    /\ pc = "done"
    /\ NoControl(text)
    /\ Len(lines) >= 3
    /\ Len(join(lines)) < Len(text)
    /\ \E f \in 1..Len(flushes) : flushes[f].hard
    /\ \E f \in 1..Len(flushes) : ~flushes[f].hard

\* ------------------------------------------------------------------- C8
\* C8 as stated: no line yielded by wc_wrap ends with a whitespace
\* character, the chunks of a hard wrap included.
C8_NoLineEndsWithSpace ==
    length >= 1 => \A k \in 1..Len(lines) : ~EndsWithSpace(lines[k])

\* C8 amended: the line buffer is stripped of trailing whitespace when it
\* is flushed: a line yielded whole does not end with whitespace, and
\* neither does the last chunk of a hard-wrapped line.
C8_FlushedLineStripped ==
    length >= 1
    => \A f \in 1..Len(flushes) :
          LET c == flushes[f].chunks
          IN  c # <<>> => ~EndsWithSpace(c[Len(c)])

C8_Witness ==
    /\ pc = "done"
    /\ \E f \in 1..Len(flushes) :
          /\ flushes[f].hard
          /\ Len(flushes[f].chunks) >= 2
          /\ EndsWithSpace(flushes[f].chunks[1])
    /\ \E f \in 1..Len(flushes) : ~flushes[f].hard
    /\ Len(join(lines)) < Len(text)

\* ------------------------------------------------------------------- C9
\* C9: for a text of characters of width 0, 1 or 2 and a length >= 2, a
\* token whose non-whitespace content is at most length columns wide is
\* never split across two yielded lines.
C9_FittingTokenNotSplit ==
    (pc = "done" /\ op = "wc_wrap" /\ length >= 2 /\ NoControl(text))
    => LET toks == re_split(text)
           idx == NonWsLineIdx(lines, 1)
           Before(j) == Len(NonWs(join(SubSeq(toks, 1, j - 1))))
       IN  \A j \in 1..Len(toks) :
              wcswidth(strip(toks[j])) <= length
              => \A a, b \in (Before(j) + 1)..(Before(j) + Len(NonWs(toks[j]))) :
                    idx[a] = idx[b]

\* ------------------------------------------------------------------ C10
\* C10: when every character of the line is between 0 and length columns
\* wide, the chunks of _wc_hard_wrap concatenated are the line, every chunk
\* is non-empty and at most length columns wide; the empty line has no chunk.
C10_HardWrapChunks ==
    (/\ op = "wc_hard_wrap"
     /\ pc = "done"
     /\ length >= 1
     /\ \A i \in 1..Len(text) : wcwidth(text[i]) >= 0 /\ wcwidth(text[i]) <= length)
    => /\ join(lines) = text
       /\ \A k \in 1..Len(lines) : lines[k] # <<>> /\ wcswidth(lines[k]) <= length
       /\ text = <<>> => lines = <<>>

C10_Witness ==
    /\ op = "wc_hard_wrap"
    /\ pc = "done"
    /\ \A i \in 1..Len(text) : wcwidth(text[i]) >= 0 /\ wcwidth(text[i]) <= length
    /\ \E i \in 1..Len(text) : text[i] = WIDE
    /\ \E i \in 1..Len(text) : text[i] = ZEROW
    /\ Len(lines) >= 3
    /\ \E k \in 1..Len(lines) : wcswidth(lines[k]) < length

====
